---- MODULE Spec2Model ----
(***************************************************************************)
(* Model of src/Astro/Weather_Station.py: the Ecowitt -> OpenWeatherMap -> *)
(* Wunderground pipeline (WeatherStationManager.collect_and_upload) and    *)
(* the run loop of main().                                                 *)
(*                                                                         *)
(* Python values are tagged records so that values of different Python     *)
(* types can be compared: None, numbers, dicts, lists.  A dict is a        *)
(* function m from the keys that are present to their values.              *)
(***************************************************************************)
EXTENDS Integers, Sequences, FiniteSets, TLC

\* ---------------------------------------------------------------- bounds
\* Sensor and cloud values range over 0..MaxVal (0 is an observed zero).
MaxVal == 1

\* ------------------------------------------------------- python values
None == [t |-> "None"]
Unset == [t |-> "unset"]
Malformed == [t |-> "malformed"]
Num(n) == [t |-> "num", v |-> n]
Dict(f) == [t |-> "dict", m |-> f]
List(n) == [t |-> "list", n |-> n]
EmptyDict == Dict(<<>>)

FieldVals == {Num(n) : n \in 0..MaxVal}

\* bool(x) as used by `if not x`
\* "is not None" in place of truthiness
Truthy_IsNotNone(x) == x.t # "None"

Truthy(x) ==
  CASE x.t = "None" -> FALSE
    [] x.t = "num" -> x.v # 0
    [] x.t = "dict" -> DOMAIN x.m # {}
    [] x.t = "list" -> x.n > 0
    [] OTHER -> TRUE

\* dict.get(k, default) on a value already known to be a dict
DictGet(d, k, default) == IF k \in DOMAIN d.m THEN d.m[k] ELSE default

\* x.get(...) raises AttributeError unless x is a dict
HasGet(x) == x.t = "dict"

\* ------------------------------------------------------ HTTP responses
TransportError == "transport_error"
HttpStatuses == {200, 201, 404, 500}
\* response.raise_for_status() raises HTTPError for 4xx and 5xx
Is2xx(s) == s >= 200 /\ s < 300

\* a dict built from optional entries: a key is present iff its value is set
Restrict(r) == Dict([k \in {x \in DOMAIN r : r[x] # Unset} |-> r[k]])

OutdoorBlocks ==
  {None} \cup {Restrict([temperature |-> a, humidity |-> b]) :
                 a \in FieldVals \cup {Unset}, b \in FieldVals \cup {Unset}}
WindBlocks ==
  {None} \cup {Restrict([windspeed |-> a, winddir |-> b]) :
                 a \in FieldVals \cup {Unset}, b \in FieldVals \cup {Unset}}
RainBlocks ==
  {None} \cup {Restrict([rainevent |-> a]) : a \in FieldVals \cup {Unset}}

\* bodies the gateway can answer with, after response.json()
GatewayDicts ==
  {Restrict([outdoor |-> o, pressure |-> p, wind |-> w, rain |-> r]) :
     o \in OutdoorBlocks \cup {Unset}, p \in FieldVals \cup {Unset},
     w \in WindBlocks \cup {Unset}, r \in RainBlocks \cup {Unset}}
GatewayBodies == GatewayDicts \cup {List(0), List(1), None, Malformed}

GatewayResponses ==
  {[kind |-> TransportError, status |-> 0, body |-> Malformed]}
  \cup {[kind |-> "http", status |-> s, body |-> Malformed] :
          s \in {x \in HttpStatuses : ~Is2xx(x)}}
  \cup {[kind |-> "http", status |-> s, body |-> b] :
          s \in {x \in HttpStatuses : Is2xx(x)}, b \in GatewayBodies}

CloudBlocks ==
  {None} \cup {Restrict([all |-> a]) : a \in FieldVals \cup {None, Unset}}
CloudBodies ==
  {Restrict([clouds |-> c]) : c \in CloudBlocks \cup {Unset}}
  \cup {List(0), None, Malformed}

CloudResponses ==
  {[kind |-> TransportError, status |-> 0, body |-> Malformed]}
  \cup {[kind |-> "http", status |-> s, body |-> Malformed] :
          s \in {x \in HttpStatuses : ~Is2xx(x)}}
  \cup {[kind |-> "http", status |-> s, body |-> b] :
          s \in {x \in HttpStatuses : Is2xx(x)}, b \in CloudBodies}

\* ------------------------------------------------------------- text
\* response.text is a sequence of characters
ToLower ==
  [c \in {"A","B","C","D","E","F","G","H","I","J","K","L","M",
          "N","O","P","Q","R","S","T","U","V","W","X","Y","Z"} |->
     CASE c = "A" -> "a" [] c = "B" -> "b" [] c = "C" -> "c" [] c = "D" -> "d"
       [] c = "E" -> "e" [] c = "F" -> "f" [] c = "G" -> "g" [] c = "H" -> "h"
       [] c = "I" -> "i" [] c = "J" -> "j" [] c = "K" -> "k" [] c = "L" -> "l"
       [] c = "M" -> "m" [] c = "N" -> "n" [] c = "O" -> "o" [] c = "P" -> "p"
       [] c = "Q" -> "q" [] c = "R" -> "r" [] c = "S" -> "s" [] c = "T" -> "t"
       [] c = "U" -> "u" [] c = "V" -> "v" [] c = "W" -> "w" [] c = "X" -> "x"
       [] c = "Y" -> "y" [] c = "Z" -> "z"]

\* str.lower()
Lower(s) == [i \in 1..Len(s) |-> IF s[i] \in DOMAIN ToLower THEN ToLower[s[i]] ELSE s[i]]

\* needle in hay
Contains(needle, hay) ==
  \E i \in 1..(Len(hay) - Len(needle) + 1) :
    SubSeq(hay, i, i + Len(needle) - 1) = needle

SuccessMarker == <<"s","u","c","c","e","s","s">>

UploadTexts ==
  { <<"s","u","c","c","e","s","s","\n">>,
    <<"S","U","C","C","E","S","S">>,
    <<"O","K",":"," ","S","u","c","c","e","s","s">>,
    <<"s","u","c","c","e","s">>,
    <<"I","N","V","A","L","I","D">>,
    <<>> }

\* an error status is tried with one body, one that holds the marker
UploadResponses ==
  {[kind |-> TransportError, status |-> 0, body |-> <<>>]}
  \cup {[kind |-> "http", status |-> s, body |-> <<"s","u","c","c","e","s","s","\n">>] :
          s \in {x \in HttpStatuses : ~Is2xx(x)}}
  \cup {[kind |-> "http", status |-> s, body |-> b] :
          s \in {x \in HttpStatuses : Is2xx(x)}, b \in UploadTexts}

\* ------------------------------------------------------ sequences
Count(seq, e) == Cardinality({i \in DOMAIN seq : seq[i] = e})
Has(seq, e) == \E i \in DOMAIN seq : seq[i] = e

\* ------------------------------------------------------------ results
\* What a call produced: a value, or an exception that leaves the function.
Returned(v, l) == [exc |-> "none", val |-> v, log |-> l]
Raised(e) == [exc |-> e, val |-> Unset, log |-> <<>>]

\* ------------------------------------------------ EcowittWeatherStation
\* response.json() on a body that is not JSON: requests >= 2.27 raises
\* requests.exceptions.JSONDecodeError, a RequestException; older releases
\* raise a plain ValueError.  The repository pins no release.
JsonError(wraps) == IF wraps THEN "RequestException" ELSE "ValueError"

get_local_data(resp, wraps) ==
  IF resp.kind = TransportError \/ ~Is2xx(resp.status)
  THEN Returned(None, <<"error: Failed to retrieve data from Ecowitt">>)
  ELSE IF resp.body = Malformed
  THEN IF JsonError(wraps) = "RequestException"
       THEN Returned(None, <<"error: Failed to retrieve data from Ecowitt">>)
       ELSE Raised("ValueError")
  ELSE Returned(resp.body, <<"info: Successfully retrieved data from Ecowitt gateway">>)

\* raw_data[block].get(field): a missing block raises KeyError
Path2_Strict(raw_data, block, field) ==
  IF ~HasGet(raw_data) THEN Raised("AttributeError")
  ELSE IF block \notin DOMAIN raw_data.m THEN Raised("KeyError")
  ELSE LET b == raw_data.m[block] IN
       IF ~HasGet(b) THEN Raised("AttributeError")
       ELSE Returned(DictGet(b, field, None), <<>>)

\* raw_data.get(block, {}).get(field): .get on anything but a dict raises
\* AttributeError
Path2(raw_data, block, field) ==
  IF ~HasGet(raw_data) THEN Raised("AttributeError")
  ELSE LET b == DictGet(raw_data, block, EmptyDict) IN
       IF ~HasGet(b) THEN Raised("AttributeError")
       ELSE Returned(DictGet(b, field, None), <<>>)

Path1(raw_data, field) ==
  IF ~HasGet(raw_data) THEN Raised("AttributeError")
  ELSE Returned(DictGet(raw_data, field, None), <<>>)

parse_data(raw_data) ==
  LET t == Path2(raw_data, "outdoor", "temperature")
      h == Path2(raw_data, "outdoor", "humidity")
      p == Path1(raw_data, "pressure")
      ws == Path2(raw_data, "wind", "windspeed")
      wd == Path2(raw_data, "wind", "winddir")
      r == Path2(raw_data, "rain", "rainevent")
  IN IF \E x \in {t, h, p, ws, wd, r} : x.exc # "none"
     THEN Returned(None, <<"error: Error parsing Ecowitt data">>)
     ELSE Returned(Dict([temperature |-> t.val, humidity |-> h.val,
                         pressure |-> p.val, wind_speed |-> ws.val,
                         wind_direction |-> wd.val, rainfall |-> r.val]), <<>>)

\* get_cloud_coverage with .get('all') and no default
get_cloud_coverage_NoDefault(resp, wraps) ==
  IF resp.kind = TransportError \/ ~Is2xx(resp.status)
  THEN Returned(None, <<"error: Failed to retrieve cloud data">>)
  ELSE IF resp.body = Malformed
  THEN IF JsonError(wraps) = "RequestException"
       THEN Returned(None, <<"error: Failed to retrieve cloud data">>)
       ELSE Raised("ValueError")
  ELSE IF ~HasGet(resp.body) THEN Raised("AttributeError")
  ELSE LET c == DictGet(resp.body, "clouds", EmptyDict) IN
       IF ~HasGet(c) THEN Raised("AttributeError")
       ELSE Returned(DictGet(c, "all", None), <<"info: Cloud coverage">>)

\* ------------------------------------------------ CloudCoverageProvider
get_cloud_coverage(resp, wraps) ==
  IF resp.kind = TransportError \/ ~Is2xx(resp.status)
  THEN Returned(None, <<"error: Failed to retrieve cloud data">>)
  ELSE IF resp.body = Malformed
  THEN IF JsonError(wraps) = "RequestException"
       THEN Returned(None, <<"error: Failed to retrieve cloud data">>)
       ELSE Raised("ValueError")
  ELSE IF ~HasGet(resp.body) THEN Raised("AttributeError")
  ELSE LET c == DictGet(resp.body, "clouds", EmptyDict) IN
       IF ~HasGet(c) THEN Raised("AttributeError")
       ELSE Returned(DictGet(c, "all", Num(0)), <<"info: Cloud coverage">>)

\* ------------------------------------------------- WundergroundUploader
\* upload_data with the marker test done on response.text as received
\* upload_data without the check of response.text
upload_data_AnyOk(resp) ==
  IF resp.kind = TransportError \/ ~Is2xx(resp.status)
  THEN Returned("False", <<"error: Failed to upload to Wunderground">>)
  ELSE Returned("True", <<"info: Successfully uploaded data to Wunderground">>)

upload_data_CaseSensitive(resp) ==
  IF resp.kind = TransportError \/ ~Is2xx(resp.status)
  THEN Returned("False", <<"error: Failed to upload to Wunderground">>)
  ELSE IF Contains(SuccessMarker, resp.body)
  THEN Returned("True", <<"info: Successfully uploaded data to Wunderground">>)
  ELSE Returned("False", <<"warning: Wunderground response">>)

\* the part of upload_data after requests.get returns or raises
upload_data(resp) ==
  IF resp.kind = TransportError \/ ~Is2xx(resp.status)
  THEN Returned("False", <<"error: Failed to upload to Wunderground">>)
  ELSE IF Contains(SuccessMarker, Lower(resp.body))
  THEN Returned("True", <<"info: Successfully uploaded data to Wunderground">>)
  ELSE Returned("False", <<"warning: Wunderground response">>)

\* a Python str
Str(chars) == [t |-> "str", s |-> chars]

Digit(n) ==
  CASE n = 0 -> "0" [] n = 1 -> "1" [] n = 2 -> "2" [] n = 3 -> "3" [] n = 4 -> "4"
    [] n = 5 -> "5" [] n = 6 -> "6" [] n = 7 -> "7" [] n = 8 -> "8" [] n = 9 -> "9"
\* %m, %d, %H, %M, %S: two digits, zero padded; %Y: four digits
Pad2(n) == <<Digit((n \div 10) % 10), Digit(n % 10)>>
Pad4(n) == <<Digit((n \div 1000) % 10), Digit((n \div 100) % 10)>> \o Pad2(n)

\* A datetime is counted in seconds from 2024-01-01 00:00:00 UTC and stays
\* within that (leap) year.
DaysBefore == <<0, 31, 60, 91, 121, 152, 182, 213, 244, 274, 305, 335, 366>>
MonthOf(doy) == CHOOSE m \in 1..12 : DaysBefore[m] <= doy /\ doy < DaysBefore[m + 1]
DateFields(ts) ==
  LET doy == ts \div 86400
      m == MonthOf(doy)
  IN [year |-> 2024, month |-> m, day |-> doy - DaysBefore[m] + 1,
      hour |-> (ts \div 3600) % 24, minute |-> (ts \div 60) % 60, second |-> ts % 60]

\* timestamp.strftime('%Y-%m-%d %H:%M')
strftime_NoSeconds(ts) ==
  LET d == DateFields(ts) IN
  Pad4(d.year) \o <<"-">> \o Pad2(d.month) \o <<"-">> \o Pad2(d.day) \o <<" ">>
  \o Pad2(d.hour) \o <<":">> \o Pad2(d.minute)

\* timestamp.strftime('%Y-%m-%d %H:%M:%S')
strftime(ts) ==
  LET d == DateFields(ts) IN
  Pad4(d.year) \o <<"-">> \o Pad2(d.month) \o <<"-">> \o Pad2(d.day) \o <<" ">>
  \o Pad2(d.hour) \o <<":">> \o Pad2(d.minute) \o <<":">> \o Pad2(d.second)

\* the params dict of upload_data, lines 175-189
upload_params(station_id, station_key, weather_data) ==
  Dict([ID |-> Str(station_id),
        PASSWORD |-> Str(station_key),
        dateutc |-> Str(strftime(weather_data.timestamp)),
        tempf |-> weather_data.temperature,
        humidity |-> weather_data.humidity,
        baromin |-> weather_data.pressure,
        windspeedmph |-> weather_data.wind_speed,
        winddir |-> weather_data.wind_direction,
        rainin |-> weather_data.rainfall,
        clouds |-> weather_data.cloud_coverage,
        action |-> Str(<<"u","p","d","a","t","e","r","a","w">>),
        realtime |-> Num(1),
        rtfreq |-> Num(2880)])

\* ------------------------------------------------- WeatherStationManager
\* WeatherData stamped with the instant collect_and_upload was entered
WeatherData_StampAtInvoke(ecowitt, cloud, now) ==
  [temperature |-> DictGet(ecowitt, "temperature", Num(0)),
   humidity |-> DictGet(ecowitt, "humidity", Num(0)),
   pressure |-> DictGet(ecowitt, "pressure", Num(0)),
   wind_speed |-> DictGet(ecowitt, "wind_speed", Num(0)),
   wind_direction |-> DictGet(ecowitt, "wind_direction", Num(0)),
   rainfall |-> DictGet(ecowitt, "rainfall", Num(0)),
   cloud_coverage |-> cloud,
   timestamp |-> 1]

\* the WeatherData(...) call of collect_and_upload
WeatherData(ecowitt, cloud, now) ==
  [temperature |-> DictGet(ecowitt, "temperature", Num(0)),
   humidity |-> DictGet(ecowitt, "humidity", Num(0)),
   pressure |-> DictGet(ecowitt, "pressure", Num(0)),
   wind_speed |-> DictGet(ecowitt, "wind_speed", Num(0)),
   wind_direction |-> DictGet(ecowitt, "wind_direction", Num(0)),
   rainfall |-> DictGet(ecowitt, "rainfall", Num(0)),
   cloud_coverage |-> cloud,
   timestamp |-> now]

\* the None of a failed enrichment passed on as it is
CloudOrZero_Keep(c) == c

\* `if cloud_coverage is None: cloud_coverage = 0`
CloudOrZero(c) == IF c = None THEN Num(0) ELSE c

\* collect_and_upload with `raw_data = get_local_data() or {}`: a failed
\* fetch goes on as an empty payload
AfterLocal_OrEmpty(r) ==
  IF r.exc # "none"
  THEN [next |-> "raise", exc |-> r.exc, raw |-> Unset, ecowitt |-> Unset, log |-> r.log]
  ELSE LET raw == IF Truthy(r.val) THEN r.val ELSE EmptyDict
           p == parse_data(raw)
       IN IF ~Truthy(p.val)
          THEN [next |-> "return", exc |-> "none", raw |-> raw, ecowitt |-> p.val,
                log |-> r.log \o p.log \o <<"error: Failed to parse Ecowitt data">>]
          ELSE [next |-> "enrich", exc |-> "none", raw |-> raw, ecowitt |-> p.val,
                log |-> r.log \o p.log]

\* lines 252-260: what collect_and_upload does with the result of
\* get_local_data, up to the call of get_cloud_coverage
AfterLocal(r) ==
  IF r.exc # "none"
  THEN [next |-> "raise", exc |-> r.exc, raw |-> Unset, ecowitt |-> Unset, log |-> r.log]
  ELSE IF ~Truthy(r.val)
  THEN [next |-> "return", exc |-> "none", raw |-> r.val, ecowitt |-> Unset,
        log |-> r.log \o <<"error: Failed to get Ecowitt data">>]
  ELSE LET p == parse_data(r.val) IN
       IF ~Truthy(p.val)
       THEN [next |-> "return", exc |-> "none", raw |-> r.val, ecowitt |-> p.val,
             log |-> r.log \o p.log \o <<"error: Failed to parse Ecowitt data">>]
       ELSE [next |-> "enrich", exc |-> "none", raw |-> r.val, ecowitt |-> p.val,
             log |-> r.log \o p.log]

\* lines 263-280: what collect_and_upload does with the result of
\* get_cloud_coverage, up to the call of upload_data; now is the instant
\* datetime.utcnow() reads
AfterCloud(ecowitt, r, now) ==
  IF r.exc # "none"
  THEN [next |-> "raise", exc |-> r.exc, cloud |-> Unset, weather |-> Unset, log |-> r.log]
  ELSE LET c == CloudOrZero(r.val) IN
       [next |-> "upload", exc |-> "none", cloud |-> c,
        weather |-> WeatherData(ecowitt, c, now),
        log |-> r.log
                \o (IF r.val = None
                    THEN <<"warning: Could not get cloud coverage, using 0">>
                    ELSE <<>>)
                \o <<"info: Combined weather data">>]

\* ------------------------------------------------------------------ main
\* the settings written in main, lines 294-303
OWM_API_KEY == <<"6","1","3","d","f","b","5","e","a","6","b","0","9","d","b","b","3","0","4","4","0","9","9","e","7","d","7","f","c","f","1","4">>
WU_STATION_ID == <<"K","C","O","L","I","T","T","L","1","2","4","0">>
WU_API_KEY == <<"y","o","u","r","_","s","t","P","a","v","Y","J","k","c","7","a","t","i","o","n","_","a","p","i","_","k","e","y">>
UPDATE_INTERVAL == 300

Placeholder == <<"y","o","u","r","_">>

\* the settings a user may have left in the script: the ones the repository
\* ships, and those with the API key or the station id still a placeholder
Configs ==
  { [owm_api_key |-> OWM_API_KEY, wu_station_id |-> WU_STATION_ID, wu_api_key |-> WU_API_KEY],
    [owm_api_key |-> <<"y","o","u","r","_","a","p","i","_","k","e","y">>, wu_station_id |-> WU_STATION_ID,
     wu_api_key |-> WU_API_KEY],
    [owm_api_key |-> OWM_API_KEY, wu_station_id |-> <<"y","o","u","r","_","s","t","a","t","i","o","n","_","i","d">>,
     wu_api_key |-> WU_API_KEY] }

\* line 307: the configuration check of main
ConfigRejected(c) ==
  Contains(Placeholder, c.owm_api_key) \/ Contains(Placeholder, c.wu_station_id)

\* lines 233-242: what the manager's clients keep of the settings
Manager(c) ==
  [api_key |-> c.owm_api_key, station_id |-> c.wu_station_id, station_key |-> c.wu_api_key]

\* ---------------------------------------------------------------- state
VARIABLES
  pc,             \* where main() is
  exc,            \* the exception that left main's loop, or "none"
  wraps,          \* the installed requests wraps JSON errors (see JsonError)
  raw_data,       \* locals of collect_and_upload
  ecowitt_data,
  cloud_ret,      \* what get_cloud_coverage returned
  cloud_coverage,
  weather_data,
  wu_resp,        \* the response upload_data received in this cycle
  ret,            \* what collect_and_upload returned in this cycle
  calls,          \* this cycle's events, in order; an event's index is its instant
  log,            \* this cycle's log records
  config,         \* the settings of main
  manager,        \* the WeatherStationManager of main, once constructed
  params,         \* the params dict of this cycle's upload request
  slept,          \* the sleeps main has finished since the last cycle returned
  fn,             \* a client method called on its own, its argument and result
  arg,
  out

fnvars == <<fn, arg, out>>

vars == <<pc, exc, wraps, raw_data, ecowitt_data, cloud_ret, cloud_coverage,
          weather_data, wu_resp, ret, calls, log, config, manager, params, slept,
          fn, arg, out>>

Running == {"loop_top", "local_inflight", "owm_inflight", "wu_inflight", "sleeping"}

Init ==
  /\ pc = "main"
  /\ config \in Configs
  /\ manager = Unset
  /\ params = Unset
  /\ slept = <<>>
  /\ fn = "none"
  /\ arg = Unset
  /\ out = Unset
  /\ exc = "none"
  /\ wraps \in BOOLEAN
  /\ raw_data = Unset
  /\ ecowitt_data = Unset
  /\ cloud_ret = Unset
  /\ cloud_coverage = Unset
  /\ weather_data = Unset
  /\ wu_resp = Unset
  /\ ret = "unset"
  /\ calls = <<>>
  /\ log = <<>>

\* a manager that keeps the last cloud coverage on itself between calls
DropLocals_KeepCloud ==
  /\ raw_data' = Unset
  /\ ecowitt_data' = Unset
  /\ cloud_coverage' = cloud_coverage
  /\ weather_data' = Unset
  /\ params' = Unset

\* the locals of collect_and_upload and upload_data do not outlive the call
DropLocals ==
  /\ raw_data' = Unset
  /\ ecowitt_data' = Unset
  /\ cloud_coverage' = Unset
  /\ weather_data' = Unset
  /\ params' = Unset

\* main, lines 307-320: check the settings, construct the manager
Main ==
  /\ pc = "main"
  /\ UNCHANGED fnvars
  /\ IF ConfigRejected(config)
     THEN /\ pc' = "config_error"
          /\ manager' = manager
          /\ log' = <<"error: Please configure API keys and station IDs in the script">>
     ELSE /\ pc' = "loop_top"
          /\ manager' = Manager(config)
          /\ log' = <<"info: Starting Weather Station uploader">>
  /\ UNCHANGED <<exc, wraps, raw_data, ecowitt_data, cloud_ret, cloud_coverage,
                 weather_data, wu_resp, ret, calls, config, params, slept>>

\* a cycle that sends the gateway and the enrichment request together
StartCycle_FanOut ==
  /\ pc = "loop_top"
  /\ UNCHANGED fnvars
  /\ pc' = "local_inflight"
  /\ DropLocals
  /\ cloud_ret' = Unset
  /\ wu_resp' = Unset
  /\ ret' = "unset"
  /\ calls' = <<"invoke", "local_req", "owm_req">>
  /\ log' = <<"info: Collecting and uploading weather data...">>
  /\ slept' = <<>>
  /\ UNCHANGED <<exc, wraps, config, manager>>

\* main, lines 323-325, into get_local_data up to requests.get
StartCycle ==
  /\ pc = "loop_top"
  /\ UNCHANGED fnvars
  /\ pc' = "local_inflight"
  /\ DropLocals
  /\ cloud_ret' = Unset
  /\ wu_resp' = Unset
  /\ ret' = "unset"
  /\ calls' = <<"invoke", "local_req">>
  /\ log' = <<"info: Collecting and uploading weather data...">>
  /\ slept' = <<>>
  /\ UNCHANGED <<exc, wraps, config, manager>>

\* the gateway answers: lines 65-71, 253-260, then 127-135
LocalRespond ==
  /\ pc = "local_inflight"
  /\ UNCHANGED fnvars
  /\ \E resp \in GatewayResponses :
       LET d == AfterLocal(get_local_data(resp, wraps)) IN
       /\ log' = log \o d.log
       /\ cloud_ret' = cloud_ret
       /\ wu_resp' = wu_resp
       /\ wraps' = wraps
       /\ UNCHANGED <<config, manager, slept>>
       /\ CASE d.next = "raise" ->
                 /\ pc' = "crashed"
                 /\ exc' = d.exc
                 /\ calls' = calls \o <<"local_res">>
                 /\ UNCHANGED <<raw_data, ecowitt_data, cloud_coverage, weather_data,
                                ret, params>>
            [] d.next = "return" ->
                 /\ pc' = "sleeping"
                 /\ ret' = "False"
                 /\ calls' = calls \o <<"local_res", "return">>
                 /\ DropLocals
                 /\ UNCHANGED exc
            [] d.next = "enrich" ->
                 /\ pc' = "owm_inflight"
                 /\ raw_data' = d.raw
                 /\ ecowitt_data' = d.ecowitt
                 /\ calls' = calls \o <<"local_res", "owm_req">>
                 /\ UNCHANGED <<exc, cloud_coverage, weather_data, ret, params>>

\* the enrichment API answers: lines 137-144, 264-280, then 175-195
CloudRespond ==
  /\ pc = "owm_inflight"
  /\ UNCHANGED fnvars
  /\ \E resp \in CloudResponses :
       LET r == get_cloud_coverage(resp, wraps)
           d == AfterCloud(ecowitt_data, r, Len(calls) + 2)
       IN
       /\ log' = log \o d.log
       /\ wu_resp' = wu_resp
       /\ wraps' = wraps
       /\ UNCHANGED <<config, manager, slept>>
       /\ CASE d.next = "raise" ->
                 /\ pc' = "crashed"
                 /\ exc' = d.exc
                 /\ calls' = calls \o <<"owm_res">>
                 /\ UNCHANGED <<raw_data, ecowitt_data, cloud_ret, cloud_coverage,
                                weather_data, ret, params>>
            [] d.next = "upload" ->
                 /\ pc' = "wu_inflight"
                 /\ cloud_ret' = r.val
                 /\ cloud_coverage' = d.cloud
                 /\ weather_data' = d.weather
                 /\ params' = upload_params(manager.station_id, manager.station_key,
                                            d.weather)
                 /\ calls' = calls \o <<"owm_res", "utcnow", "wu_req">>
                 /\ UNCHANGED <<exc, raw_data, ecowitt_data, ret>>

\* upload_data that sends the request again when the target is unavailable
UploadRespond_Retry ==
  /\ pc = "wu_inflight"
  /\ UNCHANGED fnvars
  /\ \E resp \in UploadResponses :
       LET r == upload_data(resp) IN
       IF resp.kind = TransportError /\ Count(calls, "wu_req") < 2
       THEN /\ calls' = calls \o <<"wu_res", "wu_req">>
            /\ log' = log \o r.log
            /\ UNCHANGED <<pc, exc, wraps, raw_data, ecowitt_data, cloud_ret,
                           cloud_coverage, weather_data, wu_resp, ret,
                           config, manager, params, slept>>
       ELSE /\ pc' = "sleeping"
            /\ wu_resp' = resp
            /\ ret' = r.val
            /\ log' = log \o r.log
            /\ calls' = calls \o <<"wu_res", "return">>
            /\ DropLocals
            /\ UNCHANGED <<exc, wraps, cloud_ret, config, manager, slept>>

\* the upload target answers: lines 196-207, 283, then main line 326-327
UploadRespond ==
  /\ pc = "wu_inflight"
  /\ UNCHANGED fnvars
  /\ \E resp \in UploadResponses :
       LET r == upload_data(resp) IN
       /\ pc' = "sleeping"
       /\ wu_resp' = resp
       /\ ret' = r.val
       /\ log' = log \o r.log
       /\ calls' = calls \o <<"wu_res", "return">>
       /\ DropLocals
       /\ UNCHANGED <<exc, wraps, cloud_ret, config, manager, slept>>

\* a sleep that backs off after a cycle that returned False
Wake_Backoff ==
  /\ pc = "sleeping"
  /\ UNCHANGED fnvars
  /\ pc' = "loop_top"
  /\ slept' = slept \o <<IF ret = "False" THEN 2 * UPDATE_INTERVAL ELSE UPDATE_INTERVAL>>
  /\ UNCHANGED <<exc, wraps, raw_data, ecowitt_data, cloud_ret, cloud_coverage,
                 weather_data, wu_resp, ret, calls, log, config, manager, params>>

\* time.sleep(UPDATE_INTERVAL) returns, line 327 back to 323
Wake ==
  /\ pc = "sleeping"
  /\ UNCHANGED fnvars
  /\ pc' = "loop_top"
  /\ slept' = slept \o <<UPDATE_INTERVAL>>
  /\ UNCHANGED <<exc, wraps, raw_data, ecowitt_data, cloud_ret, cloud_coverage,
                 weather_data, wu_resp, ret, calls, log, config, manager, params>>

\* a stop signal that lets the cycle in flight return before the loop ends
KeyboardInterrupt_Deferred ==
  /\ pc \in Running
  /\ UNCHANGED fnvars
  /\ pc' = "exited"
  /\ exc' = "KeyboardInterrupt"
  /\ log' = log \o <<"info: Shutting down Weather Station uploader">>
  /\ calls' = IF pc \in {"local_inflight", "owm_inflight", "wu_inflight"}
              THEN calls \o <<"return">> ELSE calls
  /\ ret' = IF pc \in {"local_inflight", "owm_inflight", "wu_inflight"}
            THEN "False" ELSE ret
  /\ UNCHANGED <<wraps, raw_data, ecowitt_data, cloud_ret, cloud_coverage,
                 weather_data, wu_resp, config, manager, params, slept>>

\* Ctrl-C: Python raises KeyboardInterrupt in the main thread wherever it
\* is; no handler below main's catches it (lines 328-329)
KeyboardInterrupt ==
  /\ pc \in Running
  /\ UNCHANGED fnvars
  /\ pc' = "exited"
  /\ exc' = "KeyboardInterrupt"
  /\ log' = log \o <<"info: Shutting down Weather Station uploader">>
  /\ UNCHANGED <<wraps, raw_data, ecowitt_data, cloud_ret, cloud_coverage,
                 weather_data, wu_resp, ret, calls, config, manager, params, slept>>

\* ------------------------------------------- client methods on their own
\* instants at which a reading may be stamped: around the turns of minute,
\* hour, day and month, the leap day and the end of the year
SampleInstants ==
  {0, 6, 59, 60, 3599, 36000 + 600 + 10, 86399, 86400, 31 * 86400 - 1,
   59 * 86400 + 43200, 60 * 86400, 285 * 86400 + 45296, 366 * 86400 - 1}

ParsedReadings == {parse_data(b).val : b \in GatewayDicts} \ {None}

\* readings upload_data may be handed
Readings ==
  {WeatherData(e, c, 6) : e \in ParsedReadings, c \in FieldVals}
  \cup {WeatherData(Dict([temperature |-> Num(MaxVal), humidity |-> Num(0),
                          pressure |-> Num(MaxVal), wind_speed |-> None,
                          wind_direction |-> Num(0), rainfall |-> Num(MaxVal)]),
                    Num(MaxVal), ts) : ts \in SampleInstants}

FnInputs(f) ==
  CASE f = "parse_data" -> GatewayBodies \ {Malformed}
    [] f = "get_cloud_coverage" ->
         {[resp |-> r, ecowitt |-> e] :
            r \in CloudResponses,
            e \in {parse_data(EmptyDict).val,
                   parse_data(Restrict([pressure |-> Num(MaxVal)])).val}}
    [] f = "upload_params" -> Readings
    [] f = "get_local_data" -> GatewayResponses

FnInit ==
  /\ pc = "call"
  /\ exc = "none"
  /\ wraps \in BOOLEAN
  /\ config \in {c \in Configs : ~ConfigRejected(c)}
  /\ manager = Manager(config)
  /\ raw_data = Unset /\ ecowitt_data = Unset /\ cloud_ret = Unset
  /\ cloud_coverage = Unset /\ weather_data = Unset /\ wu_resp = Unset
  /\ params = Unset /\ ret = "unset" /\ calls = <<>> /\ log = <<>> /\ slept = <<>>
  /\ fn \in {"parse_data", "get_cloud_coverage", "upload_params", "get_local_data"}
  /\ arg \in FnInputs(fn)
  /\ out = Unset

FnFrame ==
  UNCHANGED <<exc, wraps, raw_data, ecowitt_data, cloud_ret, cloud_coverage,
              weather_data, wu_resp, ret, calls, log, config, manager, params,
              slept, fn, arg>>

\* EcowittWeatherStation.parse_data(arg)
CallParse ==
  /\ pc = "call" /\ fn = "parse_data"
  /\ out' = parse_data(arg)
  /\ pc' = "returned"
  /\ FnFrame

\* CloudCoverageProvider.get_cloud_coverage() answered by arg.resp, and
\* what collect_and_upload makes of the result (lines 263-280)
CallCloud ==
  /\ pc = "call" /\ fn = "get_cloud_coverage"
  /\ LET r == get_cloud_coverage(arg.resp, wraps) IN
     out' = [r |-> r, d |-> AfterCloud(arg.ecowitt, r, 6)]
  /\ pc' = "returned"
  /\ FnFrame

\* the params dict upload_data builds for the reading arg (lines 175-189)
CallParams ==
  /\ pc = "call" /\ fn = "upload_params"
  /\ out' = upload_params(manager.station_id, manager.station_key, arg)
  /\ pc' = "returned"
  /\ FnFrame

\* EcowittWeatherStation.get_local_data() answered by arg, and what
\* collect_and_upload makes of the result (lines 252-260)
CallLocal ==
  /\ pc = "call" /\ fn = "get_local_data"
  /\ LET r == get_local_data(arg, wraps) IN
     out' = [r |-> r, d |-> AfterLocal(r)]
  /\ pc' = "returned"
  /\ FnFrame

FnNext == CallParse \/ CallCloud \/ CallParams \/ CallLocal

FnSpec == FnInit /\ [][FnNext]_vars

Next ==
  \/ Main
  \/ StartCycle
  \/ LocalRespond
  \/ CloudRespond
  \/ UploadRespond
  \/ Wake
  \/ KeyboardInterrupt

Spec == Init /\ [][Next]_vars

\* the program keeps running: every step of main that is enabled is taken;
\* the stop signal is the environment's and may never come
FairSpec == Spec /\ WF_vars(Main) /\ WF_vars(StartCycle) /\ WF_vars(LocalRespond)
                 /\ WF_vars(CloudRespond) /\ WF_vars(UploadRespond) /\ WF_vars(Wake)

\* ------------------------------------------------------ observations
\* the instant of the first event e of the cycle
At(e) == CHOOSE i \in DOMAIN calls : calls[i] = e /\ \A j \in 1..(i - 1) : calls[j] # e
Last(seq) == seq[Len(seq)]

\* get_local_data returned None after a transport error or a bad status
LocalUnavailable == Has(log, "error: Failed to retrieve data from Ecowitt")

\* the six fields and where the gateway payload keeps them
Fields == {"temperature", "humidity", "pressure", "wind_speed", "wind_direction", "rainfall"}
FieldPath ==
  [temperature |-> <<"outdoor", "temperature">>, humidity |-> <<"outdoor", "humidity">>,
   pressure |-> <<"pressure">>, wind_speed |-> <<"wind", "windspeed">>,
   wind_direction |-> <<"wind", "winddir">>, rainfall |-> <<"rain", "rainevent">>]

\* the payload has a value at the path of field f
Present(raw, f) ==
  LET path == FieldPath[f] IN
  /\ raw.t = "dict"
  /\ path[1] \in DOMAIN raw.m
  /\ Len(path) = 2 =>
       /\ raw.m[path[1]].t = "dict"
       /\ path[2] \in DOMAIN raw.m[path[1]].m

Source(raw, f) ==
  LET path == FieldPath[f] IN
  IF Len(path) = 1 THEN raw.m[path[1]] ELSE raw.m[path[1]].m[path[2]]

\* a 2xx answer whose body holds the marker in some mix of letter cases
UpperMarker == <<"S","U","C","C","E","S","S">>
HasMarkerAnyCase(text) ==
  \E i \in 1..(Len(text) - 6) :
    \A j \in 1..7 : text[i + j - 1] \in {SuccessMarker[j], UpperMarker[j]}

Class(resp) ==
  IF resp.kind # "http" \/ resp.status < 200 \/ resp.status > 299 THEN "Unavailable"
  ELSE IF HasMarkerAnyCase(resp.body) THEN "Success"
  ELSE "Rejected"

\* -------------------------------------------------------------- claims

\* C1: in a cycle whose local fetch returned None (transport error,
\* timeout or non-2xx status) no enrichment request and no upload request
\* is issued, and the cycle has returned False.
C1_NoCallsAfterLocalUnavailable ==
  LocalUnavailable =>
    /\ Count(calls, "owm_req") = 0
    /\ Count(calls, "wu_req") = 0
    /\ Has(calls, "return")
    /\ ret = "False"

C1_Witness ==
  /\ LocalUnavailable
  /\ pc = "sleeping"
  /\ calls = <<"invoke", "local_req", "local_res", "return">>

\* C2: when the local fetch and the parse succeeded and get_cloud_coverage
\* returned None, exactly one upload request is issued, the reading handed
\* to upload_data has cloud_coverage 0, and the cycle returns True exactly
\* when the upload target accepted (2xx with the marker).
C2_UploadProceedsWithZeroCloud ==
  cloud_ret = None =>
    /\ Count(calls, "wu_req") = 1
    /\ weather_data # Unset => weather_data.cloud_coverage = Num(0)
    /\ Has(calls, "return") =>
         /\ ret \in {"True", "False"}
         /\ ret = "True" <=> Class(wu_resp) = "Success"

C2_Witness ==
  /\ cloud_ret = None
  /\ pc = "sleeping"
  /\ ret = "True"
  /\ Has(log, "warning: Could not get cloud coverage, using 0")

C2_WitnessReading ==
  /\ cloud_ret = None
  /\ pc = "wu_inflight"
  /\ weather_data.cloud_coverage = Num(0)

\* C3: for a payload with at least one of the six fields present, the
\* reading handed to upload_data has every present field equal to its
\* source value and every absent field equal to 0.
C3_DefaultFill ==
  (pc = "wu_inflight" /\ \E f \in Fields : Present(raw_data, f)) =>
    \A f \in Fields :
      weather_data[f] = IF Present(raw_data, f) THEN Source(raw_data, f) ELSE Num(0)

\* C4: when the gateway payload is well formed and none of the six fields
\* is present, no upload request is issued in that cycle.
C4_AllUnknownSkipsUpload ==
  (raw_data.t = "dict" /\ \A f \in Fields : ~Present(raw_data, f)) =>
    Count(calls, "wu_req") = 0

\* C5 as stated: the value upload_data returns tells the three outcomes
\* apart, so no response of another class yields the value this cycle got.
C5_ReturnValuesDistinct ==
  wu_resp # Unset =>
    \A r \in UploadResponses :
      Class(r) # Class(wu_resp) => upload_data(r).val # ret

\* C5 amended: Success returns True, Rejected and Unavailable both return
\* False; the three are told apart by the log record only (info, warning,
\* error).
C5_OutcomesDistinctInLog ==
  wu_resp # Unset =>
    LET c == Class(wu_resp) IN
    /\ c = "Success" =>
         /\ ret = "True"
         /\ Has(log, "info: Successfully uploaded data to Wunderground")
    /\ c = "Rejected" =>
         /\ ret = "False"
         /\ Has(log, "warning: Wunderground response")
    /\ c = "Unavailable" =>
         /\ ret = "False"
         /\ Has(log, "error: Failed to upload to Wunderground")
    /\ Count(log, "info: Successfully uploaded data to Wunderground")
         + Count(log, "warning: Wunderground response")
         + Count(log, "error: Failed to upload to Wunderground") = 1

C5_Witness ==
  /\ wu_resp # Unset
  /\ Class(wu_resp) = "Rejected"
  /\ ret = "False"
  /\ Has(log, "warning: Wunderground response")

\* C6: the run loop is left only through the stop signal; no answer of an
\* endpoint makes an exception leave collect_and_upload.  Stated for the
\* requests releases that turn a malformed body into a RequestException, so
\* that a violation does not rest on the installed release.
C6_OnlyStopEndsLoop ==
  wraps => (pc \in {"exited", "crashed"} => exc = "KeyboardInterrupt")

C8_StopsOnlyOnSignal ==
  /\ [][exc = "KeyboardInterrupt" => pc' = "exited" /\ calls' = calls]_vars
  /\ []((wraps /\ pc \in Running /\ exc # "KeyboardInterrupt") =>
          <>(exc = "KeyboardInterrupt" \/ pc = "local_inflight"))

\* C9: within a cycle the events are ordered local request, local result,
\* enrichment request, enrichment result, upload request: the enrichment
\* request comes after the local fetch has resolved and the upload request
\* after both fetches have resolved.
C9_StrictOrder ==
  /\ \A i \in DOMAIN calls :
       calls[i] = "owm_req" => \E j \in 1..(i - 1) : calls[j] = "local_res"
  /\ \A i \in DOMAIN calls :
       calls[i] = "wu_req" =>
         /\ \E j \in 1..(i - 1) : calls[j] = "local_res"
         /\ \E j \in 1..(i - 1) : calls[j] = "owm_res"
  /\ \A i \in DOMAIN calls :
       calls[i] = "local_res" => \E j \in 1..(i - 1) : calls[j] = "local_req"
  /\ \A i \in DOMAIN calls :
       calls[i] = "owm_res" => \E j \in 1..(i - 1) : calls[j] = "owm_req"

C9_Witness ==
  /\ pc = "wu_inflight"
  /\ calls = <<"invoke", "local_req", "local_res", "owm_req", "owm_res", "utcnow", "wu_req">>

\* C10: a cycle reads the clock at most once; the reading's timestamp is
\* that instant and stays so; the instant is not before the invocation,
\* is after both fetches have resolved, before the upload request, and not
\* after the return.
C10_TimestampOnceAtAggregation ==
  /\ Count(calls, "utcnow") <= 1
  /\ weather_data # Unset =>
       /\ Count(calls, "utcnow") = 1
       /\ weather_data.timestamp = At("utcnow")
  /\ Has(calls, "utcnow") =>
       /\ At("invoke") <= At("utcnow")
       /\ Has(calls, "local_res") /\ At("local_res") < At("utcnow")
       /\ Has(calls, "owm_res") /\ At("owm_res") < At("utcnow")
       /\ \A i \in DOMAIN calls : calls[i] = "wu_req" => At("utcnow") < i
       /\ \A i \in DOMAIN calls : calls[i] = "return" => At("utcnow") <= i

C10_Witness ==
  /\ pc = "wu_inflight"
  /\ weather_data # Unset
  /\ weather_data.timestamp = At("utcnow")
  /\ At("owm_res") < weather_data.timestamp

\* C11: no retries within a cycle: whatever fails, a cycle issues at most
\* one request to the gateway, one to the enrichment API and one to the
\* upload target, and every response answers a request of its own; a new
\* request to an endpoint needs a new cycle.
C11_NoRetries ==
  /\ Count(calls, "invoke") <= 1
  /\ Count(calls, "local_req") <= 1
  /\ Count(calls, "owm_req") <= 1
  /\ Count(calls, "wu_req") <= 1
  /\ Count(calls, "local_res") <= Count(calls, "local_req")
  /\ Count(calls, "owm_res") <= Count(calls, "owm_req")
  /\ Count(calls, "wu_res") <= Count(calls, "wu_req")
  /\ Has(calls, "return") => Last(calls) = "return"

C11_Witness ==
  /\ pc = "sleeping"
  /\ wu_resp # Unset
  /\ wu_resp.kind = TransportError
  /\ ret = "False"
  /\ Count(calls, "wu_req") = 1
  /\ Last(calls) = "return"

\* C12: the scheduler alternates cycle, sleep, cycle, sleep: a cycle that
\* is not the first is invoked after exactly one finished sleep of the full
\* UPDATE_INTERVAL, whatever the previous cycle returned; a sleep finishes
\* only after the cycle before it has returned.
C12_CycleSleepAlternate ==
  [][/\ (pc = "loop_top" /\ pc' = "local_inflight") =>
          \/ ret = "unset" /\ calls = <<>> /\ slept = <<>>
          \/ /\ ret \in {"True", "False"}
             /\ Last(calls) = "return"
             /\ slept = <<UPDATE_INTERVAL>>
     /\ (slept' # slept /\ slept' # <<>>) =>
          /\ pc = "sleeping"
          /\ Last(calls) = "return"
          /\ slept = <<>>
     /\ (pc # "sleeping" /\ pc' = "sleeping") => (slept' = <<>> /\ Last(calls') = "return")
    ]_vars

C12_Witness ==
  /\ pc = "loop_top"
  /\ ret = "False"
  /\ slept = <<UPDATE_INTERVAL>>
  /\ Last(calls) = "return"

C12_WitnessAfterSuccess ==
  /\ pc = "loop_top"
  /\ ret = "True"
  /\ slept = <<UPDATE_INTERVAL>>

\* C19: the run loop is entered only with a fully configured station: when
\* the enrichment API key, the upload station id or the upload station key
\* holds placeholder text, main ends without a manager, a cycle or a
\* request.
C19_NoRunWithPlaceholder ==
  (\/ Contains(Placeholder, config.owm_api_key)
   \/ Contains(Placeholder, config.wu_station_id)
   \/ Contains(Placeholder, config.wu_api_key)) =>
    /\ pc \in {"main", "config_error"}
    /\ manager = Unset
    /\ calls = <<>>

\* C13: no cross-cycle state.  A cycle starts with nothing left of the
\* cycles before it, and what it hands to the upload (every field but the
\* timestamp) and what it returns are fixed functions of the answers it
\* received itself: the gateway payload, the enrichment result and the
\* upload response.  Two runs with the same answers in a cycle therefore
\* agree in that cycle.
C13_NoCrossCycleState ==
  /\ pc = "local_inflight" =>
       /\ raw_data = Unset /\ ecowitt_data = Unset /\ cloud_ret = Unset
       /\ cloud_coverage = Unset /\ weather_data = Unset /\ params = Unset
       /\ wu_resp = Unset /\ ret = "unset"
       /\ calls = <<"invoke", "local_req">>
  /\ weather_data # Unset =>
       /\ \A f \in Fields :
            weather_data[f] = IF Present(raw_data, f) THEN Source(raw_data, f) ELSE None
       /\ weather_data.cloud_coverage = IF cloud_ret = None THEN Num(0) ELSE cloud_ret
       /\ params.m.tempf = weather_data.temperature
       /\ params.m.humidity = weather_data.humidity
       /\ params.m.baromin = weather_data.pressure
       /\ params.m.windspeedmph = weather_data.wind_speed
       /\ params.m.winddir = weather_data.wind_direction
       /\ params.m.rainin = weather_data.rainfall
       /\ params.m.clouds = weather_data.cloud_coverage
       /\ params.m.ID = Str(config.wu_station_id)
       /\ params.m.PASSWORD = Str(config.wu_api_key)
  /\ Has(calls, "return") =>
       ret = IF wu_resp # Unset /\ Class(wu_resp) = "Success" THEN "True" ELSE "False"

\* a cycle has returned True with a cloud value fetched, the sleep is over,
\* and nothing of that cycle is left for the next one
C13_Witness ==
  /\ pc = "loop_top"
  /\ slept = <<UPDATE_INTERVAL>>
  /\ ret = "True"
  /\ cloud_ret = Num(1)
  /\ raw_data = Unset
  /\ cloud_coverage = Unset
  /\ params = Unset

\* reading a 'YYYY-MM-DD HH:MM:SS' text back
IsDigit(c) == \E n \in 0..9 : Digit(n) = c
DigitVal(c) == CHOOSE n \in 0..9 : Digit(n) = c
Num2(d, i) == DigitVal(d[i]) * 10 + DigitVal(d[i + 1])
WellFormedDate(d) ==
  /\ Len(d) = 19
  /\ d[5] = "-" /\ d[8] = "-" /\ d[11] = " " /\ d[14] = ":" /\ d[17] = ":"
  /\ \A i \in (1..19) \ {5, 8, 11, 14, 17} : IsDigit(d[i])
  /\ SubSeq(d, 1, 4) = <<"2", "0", "2", "4">>
  /\ Num2(d, 6) \in 1..12 /\ Num2(d, 9) \in 1..31
  /\ Num2(d, 12) \in 0..23 /\ Num2(d, 15) \in 0..59 /\ Num2(d, 18) \in 0..59
SecondsOf(d) ==
  (DaysBefore[Num2(d, 6)] + Num2(d, 9) - 1) * 86400
  + Num2(d, 12) * 3600 + Num2(d, 15) * 60 + Num2(d, 18)

\* C14: a 2xx answer of the enrichment API with a well-formed body that has
\* no clouds.all makes get_cloud_coverage return 0, not None, and the
\* reading built from it has cloud_coverage 0; when clouds.all is there the
\* returned value is that value.
C14_CloudsAllDefault ==
  (pc = "returned" /\ fn = "get_cloud_coverage"
   /\ arg.resp.kind = "http" /\ arg.resp.status \in 200..299
   /\ arg.resp.body.t = "dict"
   /\ ("clouds" \in DOMAIN arg.resp.body.m => arg.resp.body.m.clouds.t = "dict")) =>
    LET body == arg.resp.body.m IN
    IF "clouds" \in DOMAIN body /\ "all" \in DOMAIN body.clouds.m
    THEN /\ out.r.exc = "none"
         /\ out.r.val = body.clouds.m.all
    ELSE /\ out.r.exc = "none"
         /\ out.r.val = Num(0)
         /\ out.d.next = "upload"
         /\ out.d.weather.cloud_coverage = Num(0)

C14_Witness ==
  /\ pc = "returned" /\ fn = "get_cloud_coverage"
  /\ arg.resp.kind = "http" /\ arg.resp.status = 200
  /\ arg.resp.body = Dict([clouds |-> EmptyDict])
  /\ out.r.val = Num(0)
  /\ out.d.weather.cloud_coverage = Num(0)

C14_WitnessPresent ==
  /\ pc = "returned" /\ fn = "get_cloud_coverage"
  /\ arg.resp.body = Dict([clouds |-> Dict([all |-> Num(MaxVal)])])
  /\ out.r.val = Num(MaxVal)

\* C15: upload_data renders a reading into exactly the thirteen keys; the
\* seven measurement keys carry the reading's fields unchanged, ID and
\* PASSWORD the configured station id and key, dateutc reads back as the
\* reading's timestamp in the form YYYY-MM-DD HH:MM:SS, and action,
\* realtime and rtfreq are 'updateraw', 1 and 2880.
C15_ParamsRendering ==
  (pc = "returned" /\ fn = "upload_params") =>
    /\ DOMAIN out.m = {"ID", "PASSWORD", "dateutc", "tempf", "humidity", "baromin",
                       "windspeedmph", "winddir", "rainin", "clouds", "action",
                       "realtime", "rtfreq"}
    /\ out.m.tempf = arg.temperature
    /\ out.m.humidity = arg.humidity
    /\ out.m.baromin = arg.pressure
    /\ out.m.windspeedmph = arg.wind_speed
    /\ out.m.winddir = arg.wind_direction
    /\ out.m.rainin = arg.rainfall
    /\ out.m.clouds = arg.cloud_coverage
    /\ out.m.ID = Str(config.wu_station_id)
    /\ out.m.PASSWORD = Str(config.wu_api_key)
    /\ out.m.dateutc.t = "str"
    /\ WellFormedDate(out.m.dateutc.s)
    /\ SecondsOf(out.m.dateutc.s) = arg.timestamp
    /\ out.m.action = Str(<<"u","p","d","a","t","e","r","a","w">>)
    /\ out.m.realtime = Num(1)
    /\ out.m.rtfreq = Num(2880)

\* 2024-10-12 12:34:56
C15_Witness ==
  /\ pc = "returned" /\ fn = "upload_params"
  /\ arg.timestamp = 285 * 86400 + 45296
  /\ out.m.dateutc =
       Str(<<"2","0","2","4","-","1","0","-","1","2"," ","1","2",":","3","4",":","5","6">>)
  /\ out.m.tempf = Num(MaxVal)
  /\ out.m.windspeedmph = None

\* C16: per-field tolerance of parse_data: for a payload that is a mapping
\* whose outdoor, wind and rain entries are each absent or a mapping,
\* parse_data returns a result, and each of the six fields is the value at
\* its path, or None when that path is missing, whatever the other fields.
C16_PerFieldTolerance ==
  (pc = "returned" /\ fn = "parse_data" /\ arg.t = "dict"
   /\ \A b \in {"outdoor", "wind", "rain"} :
        b \in DOMAIN arg.m => arg.m[b].t = "dict") =>
    /\ out.exc = "none"
    /\ out.val.t = "dict"
    /\ DOMAIN out.val.m = Fields
    /\ \A f \in Fields :
         out.val.m[f] = IF Present(arg, f) THEN Source(arg, f) ELSE None

C16_Witness ==
  /\ pc = "returned" /\ fn = "parse_data"
  /\ arg = Dict([pressure |-> Num(MaxVal)])
  /\ out.val.m.pressure = Num(MaxVal)
  /\ out.val.m.temperature = None
  /\ out.val.m.rainfall = None

C16_WitnessEmptyBlock ==
  /\ pc = "returned" /\ fn = "parse_data"
  /\ arg = Dict([outdoor |-> Dict([humidity |-> Num(0)]), wind |-> EmptyDict])
  /\ out.val.m.humidity = Num(0)
  /\ out.val.m.temperature = None

\* C17: collect_and_upload returns True exactly when, in that cycle, the
\* local fetch returned a non-empty payload, parse_data returned a result,
\* an upload request was issued and its response was 2xx with the success
\* marker; every other cycle that returns, returns False.
C17_TrueIffAllStepsSucceed ==
  Has(calls, "return") =>
    /\ ret \in {"True", "False"}
    /\ ret = "True" <=>
         /\ Has(log, "info: Successfully retrieved data from Ecowitt gateway")
         /\ ~Has(log, "error: Failed to get Ecowitt data")
         /\ ~Has(log, "error: Failed to parse Ecowitt data")
         /\ Has(calls, "wu_req")
         /\ wu_resp # Unset
         /\ wu_resp.kind = "http" /\ Is2xx(wu_resp.status)
         /\ HasMarkerAnyCase(wu_resp.body)

\* a cycle returned False although the upload was answered 2xx: the body
\* lacked the marker
C17_Witness ==
  /\ Has(calls, "return")
  /\ ret = "False"
  /\ Has(calls, "wu_req")
  /\ wu_resp # Unset /\ wu_resp.kind = "http" /\ Is2xx(wu_resp.status)
  /\ ~HasMarkerAnyCase(wu_resp.body)

C17_WitnessTrue ==
  /\ Has(calls, "return")
  /\ ret = "True"
  /\ wu_resp # Unset /\ wu_resp.status = 201

\* C18: a 2xx gateway answer whose body is an empty mapping or an empty
\* list is handled like an unavailable gateway: collect_and_upload returns
\* before parse_data is called, so no enrichment and no upload request
\* follows.
C18_EmptyPayloadIsUnavailable ==
  (pc = "returned" /\ fn = "get_local_data"
   /\ arg.kind = "http" /\ Is2xx(arg.status)
   /\ arg.body \in {EmptyDict, List(0)}) =>
    LET u == AfterLocal(get_local_data(
               [kind |-> TransportError, status |-> 0, body |-> Malformed], wraps))
    IN /\ out.r.exc = "none"
       /\ out.r.val = arg.body
       /\ out.d.next = "return"
       /\ out.d.ecowitt = Unset
       /\ ~Has(out.d.log, "error: Error parsing Ecowitt data")
       /\ ~Has(out.d.log, "error: Failed to parse Ecowitt data")
       /\ Last(out.d.log) = "error: Failed to get Ecowitt data"
       /\ out.d.next = u.next
       /\ out.d.ecowitt = u.ecowitt
       /\ Last(out.d.log) = Last(u.log)

C18_Witness ==
  /\ pc = "returned" /\ fn = "get_local_data"
  /\ arg = [kind |-> "http", status |-> 200, body |-> EmptyDict]
  /\ out.d.next = "return"
  /\ out.d.log = <<"info: Successfully retrieved data from Ecowitt gateway",
                   "error: Failed to get Ecowitt data">>

C18_WitnessList ==
  /\ pc = "returned" /\ fn = "get_local_data"
  /\ arg = [kind |-> "http", status |-> 201, body |-> List(0)]
  /\ out.d.next = "return"

====
